---- MODULE Spec2Model ----
(***************************************************************************)
(* homectl: BLE temperature sensors -> room registry -> heating actuators. *)
(*                                                                         *)
(* The model follows src/src/bt.rs (discovery loop and notification        *)
(* readers), src/src/data.rs (room registry consumer update_rooms and the  *)
(* actuator dispatcher update_actors) and src/src/ui.rs (the supervisory   *)
(* select and the UI thread).                                              *)
(*                                                                         *)
(* Conventions:                                                            *)
(*   Option<T>   None is <<>>, Some(v) is <<v>>.                           *)
(*   Instant     an integer number of seconds; the process starts at 0,    *)
(*               instants reconstructed from rooms.json may be negative.   *)
(*   f32 temp    kept as the integer number of tenths of a degree that     *)
(*               the reader divides by 10.0.                               *)
(*   Vec<u8>     a sequence; Rust's data[k] is data[k + 1] here.           *)
(* Every action is one run of a task between two of its await points; the  *)
(* sections that hold the registry mutex contain no await and are atomic.  *)
(***************************************************************************)
EXTENDS Integers, Sequences, FiniteSets, TLC

VARIABLES
    now,        \* Instant::now()
    rooms,      \* Arc<Mutex<Vec<Room>>>: the protected Vec<Room>
    poisoned,   \* the mutex is poisoned (a holder panicked)
    chan,       \* mpsc channel(10): readings in flight
    rxAlive,    \* the Receiver (owned by update_rooms) has not been dropped
    readers,    \* the spawned notification reader tasks, in spawn order
    bt,         \* bt_main: "setup" | "loop" | "failed" | "ended" | "cancelled"
    consumer,   \* update_rooms: "recv" | "panicked" | "cancelled"
    actors,     \* update_actors: [pc, requests, wake, sent, log]
    sup,        \* the select! of MyApp::new: "waiting" | the branch that fired
    ct,         \* CancellationToken is cancelled
    ui,         \* UI thread: "running" | "saving" | "closed" | "panicked"
    rooms0,     \* the registry create_rooms returned (never written again)
    seen,       \* addresses of the readings update_rooms has merged
    dropped,    \* notifications the readers rejected by the length check
    lock,       \* holder of the registry mutex between two steps: "free" | "ui"
    conn,       \* one call of query_device: [pc, addr, name, connected, tried, ..]
    args,       \* env::args() as bt_main reads them: [with_changes, filter_addr]
    ord,        \* per device: notifications delivered, numbered, and merged
    repaints,   \* calls of ctx.request_repaint() by update_rooms so far
    nInputs     \* inputs of the environment consumed so far

vars == <<now, rooms, poisoned, chan, rxAlive, readers, bt, consumer, actors,
          sup, ct, ui, rooms0, seen, dropped, lock, conn, args, ord,
          repaints, nInputs>>

----------------------------------------------------------------------------
(* Bound of the model: the inputs of the environment (clock steps,
   discovery events, notifications and stream errors, clicks, Ctrl-C, the
   window closing, the end of the discovery stream) in one behaviour *)

MaxInputs == 4

(* Program constants *)

SensorTtlSecs == 300
HistoryLenSecs == 86400
ActorPeriodSecs == 3600
ChannelCapacity == 10
MinPayloadLen == 6

----------------------------------------------------------------------------
(* Option *)

None == <<>>
Some(v) == <<v>>
IsSome(o) == o # <<>>
Unwrap(o) == o[1]

----------------------------------------------------------------------------
(* data.rs: the data types *)

TPSensorData(address, temperature, humidity) ==
    [address |-> address, temperature |-> temperature, humidity |-> humidity]

SensorHistoryItem(data, timestamp) == [data |-> data, timestamp |-> timestamp]

Manual(level) == [mode |-> "Manual", val |-> level]
Auto(target) == [mode |-> "Auto", val |-> target]

HeatingActor(address, state) == [address |-> address, state |-> state]

Room(name, sensor_address, sensor_ttl, sensor, sensor_history, actor) ==
    [name |-> name, sensor_address |-> sensor_address, sensor_ttl |-> sensor_ttl,
     sensor |-> sensor, sensor_history |-> sensor_history, actor |-> actor]

(* create_rooms: the built-in list, used when rooms.json is absent or malformed *)
DefaultRooms ==
    << Room("Galerie", "10:76:36:76:66:1E", None, None, <<>>, None),
       Room("Schlafzimmer", "D1:D7:3F:67:8C:EF", None, None, <<>>,
            Some(HeatingActor("http://shellypro3-ece334ed1928.local/relay/2", Manual(3)))),
       Room("Kinderzimmer", "D2:7C:11:BC:05:E3", None, None, <<>>, None),
       Room("Kueche/Diele", "C9:B5:08:81:6A:AC", None, None, <<>>, None),
       Room("Wohnzimmer", "FA:74:A7:99:89:04", None, None, <<>>, None),
       Room("Baeckerei", "10:76:36:C2:B7:87", None, None, <<>>, None) >>

(* create_rooms: a registry read from rooms.json. sensor_ttl is #[serde(skip)] and
   comes back as None; the history instants are rebuilt by approx_instant relative
   to the new process's clock, so entries written by an earlier run are negative. *)
KnownAddr == "D1:D7:3F:67:8C:EF"
OtherAddr == "AA:BB:CC:DD:EE:FF"
RelayUrl == "http://shellypro3-ece334ed1928.local/relay/2"

SavedRooms ==
    << Room("Schlafzimmer", KnownAddr, None, Some(TPSensorData(KnownAddr, 215, 40)),
            << SensorHistoryItem(TPSensorData(KnownAddr, 201, 45), -90000),
               SensorHistoryItem(TPSensorData(KnownAddr, 215, 40), -86400) >>,
            Some(HeatingActor(RelayUrl, Manual(0)))),
       Room("Gast", KnownAddr, None, None, <<>>, None) >>

SavedRoomsAuto ==
    << Room("Schlafzimmer", KnownAddr, None, None, <<>>,
            Some(HeatingActor(RelayUrl, Manual(6)))),
       Room("Bad", "", None, None, <<>>,
            Some(HeatingActor("http://shelly-bad.local/relay/0", Auto(210)))),
       Room("Kueche", "C9:B5:08:81:6A:AC", None, None, <<>>,
            Some(HeatingActor("http://shelly-kueche.local/relay/0", Manual(3)))) >>

create_rooms == {DefaultRooms, SavedRooms, SavedRoomsAuto}

(* The devices that advertise, and the payloads their notifications carry *)
Devices == {KnownAddr, OtherAddr}
Payloads ==
    { <<194, 0, 0, 232, 0>>,            \* 5 bytes: too short
      <<194, 0, 0, 232, 0, 44>>,        \* 0x00E8 = 23.2 degrees, 44 %
      <<194, 0, 0, 56, 255, 200>> }     \* 0xFF38 = -20.0 degrees as int16, 200

----------------------------------------------------------------------------
(* data.rs update_rooms: merge and sweep, under the lock *)

(* rooms.iter_mut().find(|s| s.sensor_address == sensor.address): the index of
   the first match, 0 for no match *)
FindRoom_last(rs, address) ==
    LET hits == {i \in 1..Len(rs) : rs[i].sensor_address = address}
    IN IF hits = {} THEN 0 ELSE CHOOSE i \in hits : \A j \in hits : i >= j

FindRoom(rs, address) ==
    LET hits == {i \in 1..Len(rs) : rs[i].sensor_address = address}
    IN IF hits = {} THEN 0 ELSE CHOOSE i \in hits : \A j \in hits : i <= j

(* while existing.sensor_history[0].timestamp < Instant::now() - history_len
       { existing.sensor_history.remove(0); }
   An empty history makes the index panic: TrimPanics *)
TrimHistory_once(h, t) ==
    IF Len(h) = 0 THEN h
    ELSE IF h[1].timestamp < t - HistoryLenSecs THEN Tail(h)
    ELSE h

RECURSIVE TrimHistory(_, _)
TrimHistory(h, t) ==
    IF Len(h) = 0 THEN h
    ELSE IF h[1].timestamp < t - HistoryLenSecs THEN TrimHistory(Tail(h), t)
    ELSE h

RECURSIVE TrimPanics(_, _)
TrimPanics(h, t) ==
    IF Len(h) = 0 THEN TRUE
    ELSE IF h[1].timestamp < t - HistoryLenSecs THEN TrimPanics(Tail(h), t)
    ELSE FALSE

(* the found branch *)
MergeExisting(room, sensor, t) ==
    [room EXCEPT !.sensor = Some(sensor),
                 !.sensor_history =
                     TrimHistory(Append(@, SensorHistoryItem(sensor, t)), t),
                 !.sensor_ttl = Some(t + SensorTtlSecs)]

(* An ad-hoc room that started its history with the reading that created it *)
NewRoom_with_history(sensor, t) ==
    Room(sensor.address, sensor.address, Some(t + SensorTtlSecs), Some(sensor),
         <<SensorHistoryItem(sensor, t)>>, None)

(* the else branch: the ad-hoc room *)
NewRoom(sensor, t) ==
    Room(sensor.address, sensor.address, Some(t + SensorTtlSecs), Some(sensor),
         <<>>, None)

Merge(rs, sensor, t) ==
    LET i == FindRoom(rs, sensor.address)
    IN IF i # 0 THEN [rs EXCEPT ![i] = MergeExisting(rs[i], sensor, t)]
       ELSE Append(rs, NewRoom(sensor, t))

(* A sweep that forgot the history of the rooms it clears *)
Sweep_with_history(rs, t) ==
    [i \in 1..Len(rs) |->
        IF IsSome(rs[i].sensor_ttl) /\ t > Unwrap(rs[i].sensor_ttl)
        THEN [rs[i] EXCEPT !.sensor = None, !.sensor_ttl = None,
                           !.sensor_history = <<>>]
        ELSE rs[i]]

(* "Remove stale sensors" *)
Stale(room, t) == IsSome(room.sensor_ttl) /\ t > Unwrap(room.sensor_ttl)

(* A sweep that cleared the reading of a stale room and left its deadline *)
Sweep_keeps_ttl(rs, t) ==
    [i \in 1..Len(rs) |->
        IF Stale(rs[i], t) THEN [rs[i] EXCEPT !.sensor = None] ELSE rs[i]]

Sweep(rs, t) ==
    [i \in 1..Len(rs) |->
        IF Stale(rs[i], t)
        THEN [rs[i] EXCEPT !.sensor = None, !.sensor_ttl = None]
        ELSE rs[i]]

(* A merge that trimmed the history before appending the new entry *)
MergePanics_trim_first(rs, sensor, t) ==
    LET i == FindRoom(rs, sensor.address)
    IN i # 0 /\ TrimPanics(rs[i].sensor_history, t)

MergePanics(rs, sensor, t) ==
    LET i == FindRoom(rs, sensor.address)
    IN i # 0 /\ TrimPanics(
           Append(rs[i].sensor_history, SensorHistoryItem(sensor, t)), t)

----------------------------------------------------------------------------
(* bt.rs: the spawned reader task *)

TooShort_five(data) == Len(data) < 5

(* if data.len() < 6 { continue; } *)
TooShort(data) == Len(data) < MinPayloadLen

(* (data[3] as i32 + data[4] as i32 * 256) as f32 / 10.0, in tenths *)
DecodeTemperature(data) == data[4] + data[5] * 256

(* data[5] as u8 *)
DecodeHumidity(data) == data[6]

Reader(addr, pc, data, why) == [addr |-> addr, pc |-> pc, data |-> data, why |-> why]

ReaderLive(r) == r.pc \in {"subscribe", "recv", "got", "resubscribe"}

(* The notifications of a device, numbered in the order its stream delivers
   them: emit counts them per address, got is the number of the payload each
   reader holds (0 for none), chan the numbers of the readings in the channel,
   last the number of the reading merged last and merged how many were merged *)
OrdInit ==
    [emit |-> [a \in Devices |-> 0], got |-> <<>>, chan |-> <<>>,
     last |-> [a \in Devices |-> 0], merged |-> [a \in Devices |-> 0]]

(* The runtime is dropped: the payloads held and the channel are gone *)
StopOrd(o) == [o EXCEPT !.got = [i \in 1..Len(o.got) |-> 0], !.chan = <<>>]

(* c.notify_io().await.expect("notify failed"), first subscription *)
ReaderSubscribe(i, ok) ==
    /\ readers[i].pc = "subscribe"
    /\ readers' = [readers EXCEPT ![i] =
          IF ok THEN Reader(@.addr, "recv", <<>>, "")
                ELSE Reader(@.addr, "panicked", <<>>, "notify failed")]
    /\ UNCHANGED <<repaints, ord, args, conn, lock, now, rooms, poisoned,
                   chan, rxAlive, bt, consumer, actors, sup, ct, ui, rooms0,
                   seen, dropped, nInputs>>

(* reader.recv().await returns Ok(data) *)
ReaderRecvOk(i, data) ==
    /\ readers[i].pc = "recv"
    /\ nInputs < MaxInputs
    /\ nInputs' = nInputs + 1
    /\ readers' = [readers EXCEPT ![i] = Reader(@.addr, "got", data, "")]
    /\ ord' = [ord EXCEPT !.emit[readers[i].addr] = @ + 1,
                          !.got[i] = ord.emit[readers[i].addr] + 1]
    /\ UNCHANGED <<repaints, args, conn, lock, now, rooms, poisoned, chan,
                   rxAlive, bt, consumer, actors, sup, ct, ui, rooms0, seen,
                   dropped>>

(* reader.recv().await returns Err(e): eprintln and resubscribe *)
ReaderRecvErr(i) ==
    /\ readers[i].pc = "recv"
    /\ nInputs < MaxInputs
    /\ nInputs' = nInputs + 1
    /\ readers' = [readers EXCEPT ![i] = Reader(@.addr, "resubscribe", <<>>, "")]
    /\ UNCHANGED <<repaints, ord, args, conn, lock, now, rooms, poisoned,
                   chan, rxAlive, bt, consumer, actors, sup, ct, ui, rooms0,
                   seen, dropped>>

(* reader = c.notify_io().await.expect("notify failed"), in the Err arm *)
ReaderResubscribe(i, ok) ==
    /\ readers[i].pc = "resubscribe"
    /\ readers' = [readers EXCEPT ![i] =
          IF ok THEN Reader(@.addr, "recv", <<>>, "")
                ELSE Reader(@.addr, "panicked", <<>>, "notify failed")]
    /\ UNCHANGED <<repaints, ord, args, conn, lock, now, rooms, poisoned,
                   chan, rxAlive, bt, consumer, actors, sup, ct, ui, rooms0,
                   seen, dropped, nInputs>>

(* A channel that took every reading at once *)
CanSend_unbounded(c) == TRUE

(* tx.send(..).await on the channel(10): the send completes when the channel
   has a free slot and waits otherwise *)
CanSend(c) == Len(c) < ChannelCapacity

(* The Ok(data) arm: length check, decode, tx.send(..).await.expect(..).
   send waits while the channel is full and fails once the Receiver is gone.
   A payload that passes the length check but has no data[5] panics on the index. *)
ReaderHandle(i) ==
    LET r == readers[i]
        data == r.data
    IN /\ r.pc = "got"
       /\ IF TooShort(data)
          THEN /\ readers' = [readers EXCEPT ![i] = Reader(r.addr, "recv", <<>>, "")]
               /\ chan' = chan
               /\ dropped' = dropped + 1
               /\ ord' = [ord EXCEPT !.got[i] = 0]
          ELSE IF Len(data) < 6
          THEN /\ readers' = [readers EXCEPT ![i] =
                      Reader(r.addr, "panicked", <<>>, "index out of bounds")]
               /\ chan' = chan
               /\ dropped' = dropped
               /\ ord' = [ord EXCEPT !.got[i] = 0]
          ELSE IF ~rxAlive
          THEN /\ readers' = [readers EXCEPT ![i] =
                      Reader(r.addr, "panicked", <<>>, "Failed to send sensor data")]
               /\ chan' = chan
               /\ dropped' = dropped
               /\ ord' = [ord EXCEPT !.got[i] = 0]
          ELSE /\ CanSend(chan)
               /\ chan' = Append(chan, TPSensorData(r.addr, DecodeTemperature(data),
                                                    DecodeHumidity(data)))
               /\ readers' = [readers EXCEPT ![i] = Reader(r.addr, "recv", <<>>, "")]
               /\ dropped' = dropped
               /\ ord' = [ord EXCEPT !.chan = Append(@, ord.got[i]), !.got[i] = 0]
       /\ UNCHANGED <<repaints, args, conn, lock, now, rooms, poisoned,
                      rxAlive, bt, consumer, actors, sup, ct, ui, rooms0,
                      seen, nInputs>>

----------------------------------------------------------------------------
(* bt.rs bt_main: the command line. --changes sets with_changes, every
   argument that is not a switch is an address of filter_addr *)
Args(with_changes, filter_addr) ==
    [with_changes |-> with_changes, filter_addr |-> filter_addr]
NoArgs == Args(FALSE, {})

----------------------------------------------------------------------------
(* bt.rs query_device and query_tp, step by step: one call for one device,
   every await a step whose outcome the BlueZ side decides *)

(* Device names as character sequences; None is a device without a name *)
NameTP357 == <<"T", "P", "3", "5", "7", " ", "(", "6", "6", "A", "1", ")">>
NameTP357S == <<"T", "P", "3", "5", "7", "S">>
NameTP35 == <<"T", "P", "3", "5">>
NameLower == <<"t", "p", "3", "5", "7">>
NameOther == <<"M", "i", " ", "B", "a", "n", "d">>
DeviceNames == {None, Some(NameTP357), Some(NameTP357S), Some(NameTP35),
                Some(NameLower), Some(NameOther)}

(* str::starts_with *)
StartsWith(name, prefix) ==
    Len(name) >= Len(prefix) /\ SubSeq(name, 1, Len(prefix)) = prefix

(* name.is_some() && name.unwrap().starts_with("TP357") *)
IsTP(name) == IsSome(name) /\ StartsWith(Unwrap(name), <<"T", "P", "3", "5", "7">>)

(* The characteristic of the sensor's notifications and another one *)
TpUuid == "00010203-0405-0607-0809-0a0b0c0d2b10"
OtherUuid == "00002a00-0000-1000-8000-00805f9b34fb"
CharLists == {<<>>, <<OtherUuid>>, <<TpUuid>>, <<OtherUuid, TpUuid>>}

(* let mut retries = 2; *)
ConnectRetries == 2

(* A connector that retried once more *)
RetryAllowed_once_more(retries) == retries >= 0

(* Err(err) if retries > 0 *)
RetryAllowed(retries) == retries > 0

(* connected is what device.is_connected() answers; tried are the outcomes of
   the calls of device.connect() so far *)
Conn(pc, addr, name, connected, tried, retries, result, why) ==
    [pc |-> pc, addr |-> addr, name |-> name, connected |-> connected,
     tried |-> tried, retries |-> retries, result |-> result, why |-> why]

(* No call of query_device is modelled step by step *)
ConnIdle == Conn("idle", "", None, FALSE, <<>>, 0, "", "")

ConnDone(result, why) ==
    conn' = [conn EXCEPT !.pc = "done", !.result = result, !.why = why]

(* let device = adapter.device(addr)?; let name = device.name().await?;
   a device that is not a TP357 is answered with Ok(None) *)
ConnName(ok) ==
    /\ conn.pc = "name"
    /\ IF ~ok THEN ConnDone("Err", "name")
       ELSE IF IsTP(conn.name) THEN conn' = [conn EXCEPT !.pc = "is_connected"]
       ELSE ConnDone("Ok(None)", "")

(* if !device.is_connected().await? { let mut retries = 2; loop .. } *)
ConnIsConnected(ok) ==
    /\ conn.pc = "is_connected"
    /\ IF ~ok THEN ConnDone("Err", "is_connected")
       ELSE IF conn.connected THEN conn' = [conn EXCEPT !.pc = "services"]
       ELSE conn' = [conn EXCEPT !.pc = "connect", !.retries = ConnectRetries]

(* match device.connect().await { Ok(()) => break,
   Err(err) if retries > 0 => retries -= 1, Err(err) => return Err(err) } *)
ConnConnect(ok) ==
    /\ conn.pc = "connect"
    /\ IF ok
       THEN conn' = [conn EXCEPT !.pc = "services", !.tried = Append(@, "ok")]
       ELSE IF RetryAllowed(conn.retries)
       THEN conn' = [conn EXCEPT !.tried = Append(@, "err"), !.retries = @ - 1]
       ELSE conn' = [conn EXCEPT !.pc = "done", !.tried = Append(@, "err"),
                                 !.result = "Err", !.why = "connect"]

(* The loops over device.services() and service.characteristics(): any call
   failing returns Err, the first characteristic with the sensor's uuid is
   returned, none is Ok(None) *)
ConnServices(ok, chars) ==
    /\ conn.pc = "services"
    /\ IF ~ok THEN ConnDone("Err", "services")
       ELSE IF \E k \in 1..Len(chars) : chars[k] = TpUuid
       THEN ConnDone("Ok(Some)", "")
       ELSE ConnDone("Ok(None)", "")

(* The program's state around the call: as after construction *)
appVars == <<now, rooms, poisoned, chan, rxAlive, readers, bt, consumer,
             actors, sup, ct, ui, rooms0, seen, dropped, lock, args, ord,
             repaints, nInputs>>

InitConn ==
    /\ now = 0
    /\ rooms = DefaultRooms
    /\ poisoned = FALSE
    /\ chan = <<>>
    /\ rxAlive = TRUE
    /\ readers = <<>>
    /\ bt = "loop"
    /\ consumer = "recv"
    /\ actors = [pc |-> "start", requests |-> <<>>, wake |-> 0, sent |-> <<>>,
                 log |-> <<>>]
    /\ sup = "waiting"
    /\ ct = FALSE
    /\ ui = "running"
    /\ rooms0 = rooms
    /\ seen = {}
    /\ dropped = 0
    /\ ord = OrdInit
    /\ lock = "free"
    /\ nInputs = 0
    /\ repaints = 0
    /\ args = NoArgs
    /\ \E addr \in Devices, name \in DeviceNames, connected \in BOOLEAN :
          conn = Conn("name", addr, name, connected, <<>>, 0, "", "")

NextConn ==
    /\ \/ \E ok \in BOOLEAN : ConnName(ok)
       \/ \E ok \in BOOLEAN : ConnIsConnected(ok)
       \/ \E ok \in BOOLEAN : ConnConnect(ok)
       \/ \E ok \in BOOLEAN, chars \in CharLists : ConnServices(ok, chars)
    /\ UNCHANGED appVars

SpecConn == InitConn /\ [][NextConn]_vars

----------------------------------------------------------------------------
(* bt.rs bt_main *)

(* Session::new, adapter, set_powered, set_discovery_filter, discover_devices:
   each error returns Err from bt_main *)
BtSetup(ok) ==
    /\ bt = "setup"
    /\ bt' = IF ok THEN "loop" ELSE "failed"
    /\ UNCHANGED <<repaints, ord, args, conn, lock, now, rooms, poisoned,
                   chan, rxAlive, readers, consumer, actors, sup, ct, ui,
                   rooms0, seen, dropped, nInputs>>

(* if !filter_addr.is_empty() && !filter_addr.contains(&addr) { continue; } *)
Filtered(addr) == args.filter_addr # {} /\ addr \notin args.filter_addr

(* AdapterEvent::DeviceAdded(addr): res is the result of query_device,
   "char" for Ok(Some(c)), "none" for Ok(None), "err" for Err(_), which is
   printed. With --changes the handler goes on to adapter.device(addr)? and
   device.events().await?; ev tells whether both succeed, and an error leaves
   bt_main through the ? with the reader already spawned. *)
DeviceAdded(addr, res, ev) ==
    /\ bt = "loop"
    /\ nInputs < MaxInputs
    /\ nInputs' = nInputs + 1
    /\ IF Filtered(addr)
       THEN UNCHANGED <<readers, bt, ord>>
       ELSE /\ readers' = IF res = "char"
                          THEN Append(readers, Reader(addr, "subscribe", <<>>, ""))
                          ELSE readers
            /\ ord' = IF res = "char" THEN [ord EXCEPT !.got = Append(@, 0)]
                      ELSE ord
            /\ bt' = IF args.with_changes /\ ~ev THEN "failed" ELSE bt
    /\ UNCHANGED <<repaints, args, conn, lock, now, rooms, poisoned, chan,
                   rxAlive, consumer, actors, sup, ct, ui, rooms0, seen,
                   dropped>>

(* device_events.next() yields None: else => break, Ok(()) *)
BtStreamEnd ==
    /\ bt = "loop"
    /\ nInputs < MaxInputs
    /\ nInputs' = nInputs + 1
    /\ bt' = "ended"
    /\ UNCHANGED <<repaints, ord, args, conn, lock, now, rooms, poisoned,
                   chan, rxAlive, readers, consumer, actors, sup, ct, ui,
                   rooms0, seen, dropped>>

----------------------------------------------------------------------------
(* data.rs update_rooms: one reading received and processed *)

UpdateRooms ==
    /\ consumer = "recv"
    /\ chan # <<>>
    /\ lock = "free"
    /\ chan' = Tail(chan)
    /\ LET sensor == Head(chan)
       IN IF poisoned
          THEN \* rooms.lock().unwrap() panics; the task ends and drops rx
               /\ consumer' = "panicked"
               /\ rxAlive' = FALSE
               /\ ord' = [ord EXCEPT !.chan = Tail(@)]
               /\ UNCHANGED <<rooms, poisoned, seen, repaints>>
          ELSE IF MergePanics(rooms, sensor, now)
          THEN \* sensor_history[0] on an empty history, with the lock held
               /\ consumer' = "panicked"
               /\ rxAlive' = FALSE
               /\ poisoned' = TRUE
               /\ ord' = [ord EXCEPT !.chan = Tail(@)]
               /\ UNCHANGED <<rooms, seen, repaints>>
          ELSE /\ rooms' = Sweep(Merge(rooms, sensor, now), now)
               /\ seen' = seen \cup {sensor.address}
               /\ ord' = [ord EXCEPT !.chan = Tail(@),
                                     !.last[sensor.address] = Head(ord.chan),
                                     !.merged[sensor.address] = @ + 1]
               /\ repaints' = repaints + 1
               /\ UNCHANGED <<consumer, rxAlive, poisoned>>
    /\ UNCHANGED <<args, conn, lock, now, readers, bt, actors, sup, ct, ui,
                   rooms0, dropped, nInputs>>

----------------------------------------------------------------------------
(* data.rs update_actors *)

Request(url, timer) == [url |-> url, turn |-> "on", timer |-> timer]

(* let time = level as u32 * 3600/6; *)
TimerSecs(level) == (level * 3600) \div 6

(* for room in &*rooms { if let Some(actor) = &room.actor { match actor.state ..
   Manual pushes client.get(url).query(..).send(), a future that is not polled
   here; Auto is unimplemented!(), a panic with the guard alive *)
RECURSIVE CollectRequests(_, _, _)
CollectRequests(rs, i, acc) ==
    IF i > Len(rs) THEN [panic |-> FALSE, requests |-> acc]
    ELSE IF ~IsSome(rs[i].actor) THEN CollectRequests(rs, i + 1, acc)
    ELSE LET actor == Unwrap(rs[i].actor)
         IN IF actor.state.mode = "Manual"
            THEN CollectRequests(rs, i + 1,
                     Append(acc, Request(actor.address, TimerSecs(actor.state.val))))
            ELSE [panic |-> TRUE, requests |-> <<>>]

(* A dispatcher whose guard lived to the end of the loop body *)
GuardHeldAcrossAwait == "actors"

(* if let Ok(rooms) = rooms.lock() { .. }: the guard is dropped at the closing
   brace of the block, before the first request.await *)
GuardAfterCollect == "free"

(* One pass of the loop body up to its first await: collect under the lock
   (skipped when lock() is Err), then poll the first request, which sends it,
   or, with nothing to await, start the sleep. *)
ActorsCycle ==
    /\ \/ actors.pc = "start"
       \/ actors.pc = "sleep" /\ now >= actors.wake
    /\ lock = "free"
    /\ lock' = GuardAfterCollect
    /\ LET got == IF poisoned THEN [panic |-> FALSE, requests |-> <<>>]
                  ELSE CollectRequests(rooms, 1, <<>>)
       IN IF got.panic
          THEN /\ actors' = [actors EXCEPT !.pc = "panicked", !.requests = <<>>,
                                           !.sent = <<>>, !.log = <<>>]
               /\ poisoned' = TRUE
          ELSE /\ actors' =
                    [pc |-> IF got.requests = <<>> THEN "sleep" ELSE "await",
                     requests |-> got.requests,
                     wake |-> IF got.requests = <<>> THEN now + ActorPeriodSecs
                              ELSE actors.wake,
                     sent |-> IF got.requests = <<>> THEN <<>>
                              ELSE <<Head(got.requests)>>,
                     log |-> <<>>]
               /\ poisoned' = poisoned
    /\ UNCHANGED <<repaints, ord, args, conn, now, rooms, chan, rxAlive,
                   readers, bt, consumer, sup, ct, ui, rooms0, seen, dropped,
                   nInputs>>

(* A dispatcher that gave up the cycle at the first failed request *)
AfterResponse_abort(ok, requests) == IF ok THEN Tail(requests) ELSE <<>>

(* for request in requests { match request.await { Ok(..) => println!,
   Err(e) => eprintln! } }: both arms only print, and the loop goes on to the
   requests that are left *)
AfterResponse(ok, requests) == Tail(requests)

(* The line the match arm prints: stdout for a response, stderr for an error *)
LogLine(ok) == IF ok THEN "response" ELSE "error"

(* The request in flight completes and its outcome is printed; the next one is
   polled, or the sleep starts. A request that fails is an input of the
   environment. *)
ActorsResponse(ok) ==
    /\ actors.pc = "await"
    /\ IF ok THEN nInputs' = nInputs
       ELSE nInputs < MaxInputs /\ nInputs' = nInputs + 1
    /\ LET rest == AfterResponse(ok, actors.requests)
       IN actors' =
            [actors EXCEPT !.requests = rest,
                           !.pc = IF rest = <<>> THEN "sleep" ELSE "await",
                           !.wake = IF rest = <<>> THEN now + ActorPeriodSecs ELSE @,
                           !.sent = IF rest = <<>> THEN @ ELSE Append(@, Head(rest)),
                           !.log = Append(@, LogLine(ok))]
    /\ UNCHANGED <<repaints, ord, args, conn, lock, now, rooms, poisoned,
                   chan, rxAlive, readers, bt, consumer, sup, ct, ui, dropped,
                   rooms0, seen>>

----------------------------------------------------------------------------
(* ui.rs: the supervisory select and the UI thread *)

StopReaders(rs) ==
    [i \in 1..Len(rs) |->
        IF ReaderLive(rs[i]) THEN Reader(rs[i].addr, "cancelled", <<>>, "")
        ELSE rs[i]]
StopBt(b) == IF b \in {"setup", "loop"} THEN "cancelled" ELSE b
StopConsumer(c) == IF c = "recv" THEN "cancelled" ELSE c

(* A runtime that left the dispatcher running *)
StopActors_none(a) == a

StopActors(a) ==
    IF a.pc \in {"start", "await", "sleep"}
    THEN [a EXCEPT !.pc = "cancelled", !.requests = <<>>]
    ELSE a

(* The branches of the select! that are ready *)
SelectReady(branch) ==
    \/ branch = "ctrl_c"
    \/ branch = "cancelled" /\ ct
    \/ branch = "bt" /\ bt \in {"failed", "ended"}
    \/ branch = "rooms" /\ consumer = "panicked"
    \/ branch = "actors" /\ actors.pc = "panicked"

(* One branch completes the select!; block_on returns and the runtime is
   dropped, which drops every task at its await point *)
SupervisorSelect(branch) ==
    /\ sup = "waiting"
    /\ SelectReady(branch)
    /\ IF branch = "ctrl_c"
       THEN nInputs < MaxInputs /\ nInputs' = nInputs + 1
       ELSE nInputs' = nInputs
    /\ sup' = branch
    /\ ct' = (ct \/ branch = "ctrl_c")
    /\ readers' = StopReaders(readers)
    /\ bt' = StopBt(bt)
    /\ consumer' = StopConsumer(consumer)
    /\ actors' = StopActors(actors)
    /\ rxAlive' = FALSE
    /\ chan' = <<>>
    /\ ord' = StopOrd(ord)
    /\ UNCHANGED <<repaints, args, conn, lock, now, rooms, poisoned, ui,
                   rooms0, seen, dropped>>

(* MyApp::update, a click on level button i of a room with an actor:
   actor.state = HeatingState::Manual(i). Of the buttons 0..=6 the model
   clicks the last. *)
ClickLevels == {6}

UiClick(i, level) ==
    /\ ui = "running"
    /\ lock = "free"
    /\ ~poisoned
    /\ nInputs < MaxInputs
    /\ i \in 1..Len(rooms)
    /\ IsSome(rooms[i].actor)
    /\ nInputs' = nInputs + 1
    /\ rooms' = [rooms EXCEPT ![i].actor =
                    Some([Unwrap(@) EXCEPT !.state = Manual(level)])]
    /\ UNCHANGED <<repaints, ord, args, conn, lock, now, poisoned, chan,
                   rxAlive, readers, bt, consumer, actors, sup, ct, ui,
                   rooms0, seen, dropped>>

(* MyApp::update with the mutex poisoned: self.rooms.lock().unwrap() panics
   on the main thread, which unwinds out of main and ends the process with
   every thread *)
UiPoisoned ==
    /\ ui = "running"
    /\ lock = "free"
    /\ poisoned
    /\ ui' = "panicked"
    /\ sup' = "exit"
    /\ readers' = StopReaders(readers)
    /\ bt' = StopBt(bt)
    /\ consumer' = StopConsumer(consumer)
    /\ actors' = StopActors(actors)
    /\ rxAlive' = FALSE
    /\ chan' = <<>>
    /\ ord' = StopOrd(ord)
    /\ UNCHANGED <<repaints, args, conn, lock, now, rooms, poisoned, ct,
                   rooms0, seen, dropped, nInputs>>

(* MyApp::save, called by eframe every auto_save_interval and when the window
   closes: save_rooms_to_file(&*self.rooms.lock().unwrap(), "rooms.json"). The
   guard is a temporary of the call statement, so the mutex is taken before
   File::create and stays held until the function has returned. *)
UiSaveBegin ==
    /\ ui = "running"
    /\ lock = "free"
    /\ ~poisoned
    /\ nInputs < MaxInputs
    /\ nInputs' = nInputs + 1
    /\ lock' = "ui"
    /\ ui' = "saving"
    /\ UNCHANGED <<repaints, ord, args, conn, now, rooms, poisoned, chan,
                   rxAlive, readers, bt, consumer, actors, sup, ct, rooms0,
                   seen, dropped>>

(* save_rooms_to_file: File::create(path).unwrap() and
   serde_json::to_writer(..).unwrap(). Written, the call returns and the guard
   is dropped; an error panics on the main thread with the guard alive, which
   poisons the mutex and ends the process with every thread. *)
UiSaveEnd(ok) ==
    /\ ui = "saving"
    /\ IF ok
       THEN /\ ui' = "running"
            /\ lock' = "free"
            /\ UNCHANGED <<poisoned, sup, readers, bt, consumer, actors,
                           rxAlive, chan, ord>>
       ELSE /\ ui' = "panicked"
            /\ lock' = "free"
            /\ poisoned' = TRUE
            /\ sup' = "exit"
            /\ readers' = StopReaders(readers)
            /\ bt' = StopBt(bt)
            /\ consumer' = StopConsumer(consumer)
            /\ actors' = StopActors(actors)
            /\ rxAlive' = FALSE
            /\ chan' = <<>>
            /\ ord' = StopOrd(ord)
    /\ UNCHANGED <<repaints, args, conn, now, rooms, ct, rooms0, seen,
                   dropped, nInputs>>

(* MyApp::on_exit: the window closes (by the user, or by the Close command
   update sends once the token is cancelled) *)
UiExit ==
    /\ ui = "running"
    /\ ct \/ nInputs < MaxInputs
    /\ nInputs' = IF ct THEN nInputs ELSE nInputs + 1
    /\ ui' = "closed"
    /\ ct' = TRUE
    /\ UNCHANGED <<repaints, ord, args, conn, lock, now, rooms, poisoned,
                   chan, rxAlive, readers, bt, consumer, actors, sup, rooms0,
                   seen, dropped>>

(* eframe::run_native returns after on_exit and main returns: the process
   ends with every thread *)
ProcessExit ==
    /\ ui = "closed"
    /\ sup # "exit"
    /\ sup' = "exit"
    /\ readers' = StopReaders(readers)
    /\ bt' = StopBt(bt)
    /\ consumer' = StopConsumer(consumer)
    /\ actors' = StopActors(actors)
    /\ rxAlive' = FALSE
    /\ chan' = <<>>
    /\ ord' = StopOrd(ord)
    /\ UNCHANGED <<repaints, args, conn, lock, now, rooms, poisoned, ct, ui,
                   rooms0, seen, dropped, nInputs>>

----------------------------------------------------------------------------
(* The clock. The steps reach a deadline exactly (300), pass it (300 twice)
   and reach and pass the 24 h history window; the dispatcher's 3600 s sleep
   ends with the first step of 86400. *)

TickSteps == {300, 86400}

Tick(d) ==
    /\ nInputs < MaxInputs
    /\ sup = "waiting"
    /\ nInputs' = nInputs + 1
    /\ now' = now + d
    /\ UNCHANGED <<repaints, ord, args, conn, lock, rooms, poisoned, chan,
                   rxAlive, readers, bt, consumer, actors, sup, ct, ui,
                   rooms0, seen, dropped>>

----------------------------------------------------------------------------
(* MyApp::new: the registry is created, the runtime thread spawns bt_main,
   update_rooms and update_actors and waits in the select! *)
Init ==
    /\ now = 0
    /\ rooms \in create_rooms
    /\ poisoned = FALSE
    /\ chan = <<>>
    /\ rxAlive = TRUE
    /\ readers = <<>>
    /\ bt = "setup"
    /\ consumer = "recv"
    /\ actors = [pc |-> "start", requests |-> <<>>, wake |-> 0, sent |-> <<>>,
                 log |-> <<>>]
    /\ sup = "waiting"
    /\ ct = FALSE
    /\ ui = "running"
    /\ rooms0 = rooms
    /\ seen = {}
    /\ dropped = 0
    /\ repaints = 0
    /\ nInputs = 0
    /\ conn = ConnIdle
    /\ lock = "free"
    /\ args = NoArgs
    /\ ord = OrdInit

Next ==
    \/ \E d \in TickSteps : Tick(d)
    \/ \E ok \in BOOLEAN : BtSetup(ok)
    \/ \E addr \in Devices, res \in {"char", "none", "err"},
          ev \in IF args.with_changes THEN BOOLEAN ELSE {TRUE} :
          DeviceAdded(addr, res, ev)
    \/ BtStreamEnd
    \/ \E i \in 1..Len(readers), ok \in BOOLEAN : ReaderSubscribe(i, ok)
    \/ \E i \in 1..Len(readers), data \in Payloads : ReaderRecvOk(i, data)
    \/ \E i \in 1..Len(readers) : ReaderRecvErr(i)
    \/ \E i \in 1..Len(readers), ok \in BOOLEAN : ReaderResubscribe(i, ok)
    \/ \E i \in 1..Len(readers) : ReaderHandle(i)
    \/ UpdateRooms
    \/ ActorsCycle
    \/ \E ok \in BOOLEAN : ActorsResponse(ok)
    \/ \E branch \in {"ctrl_c", "cancelled", "bt", "rooms", "actors"} :
          SupervisorSelect(branch)
    \/ \E i \in 1..Len(rooms), level \in ClickLevels : UiClick(i, level)
    \/ UiPoisoned
    \/ UiSaveBegin
    \/ \E ok \in BOOLEAN : UiSaveEnd(ok)
    \/ UiExit
    \/ ProcessExit

Spec == Init /\ [][Next]_vars

(* The program started with --changes, with or without an address to filter
   by *)
InitChanges ==
    /\ now = 0
    /\ rooms \in create_rooms
    /\ poisoned = FALSE
    /\ chan = <<>>
    /\ rxAlive = TRUE
    /\ readers = <<>>
    /\ bt = "setup"
    /\ consumer = "recv"
    /\ actors = [pc |-> "start", requests |-> <<>>, wake |-> 0, sent |-> <<>>,
                 log |-> <<>>]
    /\ sup = "waiting"
    /\ ct = FALSE
    /\ ui = "running"
    /\ rooms0 = rooms
    /\ seen = {}
    /\ dropped = 0
    /\ ord = OrdInit
    /\ lock = "free"
    /\ conn = ConnIdle
    /\ args \in {Args(TRUE, {}), Args(TRUE, {KnownAddr})}
    /\ repaints = 0
    /\ nInputs = 0

SpecChanges == InitChanges /\ [][Next]_vars

(* The registry and what feeds it: the program after both devices were
   discovered and their readers subscribed, followed through the steps that
   reach the registry (the clock, the readers, the consumer, the level
   buttons) *)
InitRegistry ==
    /\ now = 0
    /\ rooms \in create_rooms
    /\ poisoned = FALSE
    /\ chan = <<>>
    /\ rxAlive = TRUE
    /\ readers = <<Reader(KnownAddr, "recv", <<>>, ""),
                   Reader(OtherAddr, "recv", <<>>, "")>>
    /\ bt = "loop"
    /\ consumer = "recv"
    /\ actors = [pc |-> "start", requests |-> <<>>, wake |-> 0, sent |-> <<>>,
                 log |-> <<>>]
    /\ sup = "waiting"
    /\ ct = FALSE
    /\ ui = "running"
    /\ rooms0 = rooms
    /\ seen = {}
    /\ dropped = 0
    /\ lock = "free"
    /\ conn = ConnIdle
    /\ args = NoArgs
    /\ ord = [OrdInit EXCEPT !.got = <<0, 0>>]
    /\ repaints = 0
    /\ nInputs = 0

NextRegistry ==
    \/ \E d \in TickSteps : Tick(d)
    \/ \E i \in 1..Len(readers), data \in Payloads : ReaderRecvOk(i, data)
    \/ \E i \in 1..Len(readers) : ReaderHandle(i)
    \/ UpdateRooms
    \/ \E i \in 1..Len(rooms), level \in ClickLevels : UiClick(i, level)

SpecRegistry == InitRegistry /\ [][NextRegistry]_vars

(* The channel close to its capacity: both readers subscribed and nine
   notifications of the first device sent and not yet received by the
   consumer (it was kept waiting for the lock by a save), followed through
   the readers and the consumer. The two discoveries count as inputs
   consumed. The tasks are scheduled fairly: a consumer that can receive
   does, a reader whose send can complete completes it. *)
BacklogLen == ChannelCapacity - 1

InitChannel ==
    /\ now = 0
    /\ rooms = DefaultRooms
    /\ poisoned = FALSE
    /\ chan = [k \in 1..BacklogLen |-> TPSensorData(KnownAddr, 232, 44)]
    /\ rxAlive = TRUE
    /\ readers = <<Reader(KnownAddr, "recv", <<>>, ""),
                   Reader(OtherAddr, "recv", <<>>, "")>>
    /\ bt = "loop"
    /\ consumer = "recv"
    /\ actors = [pc |-> "start", requests |-> <<>>, wake |-> 0, sent |-> <<>>,
                 log |-> <<>>]
    /\ sup = "waiting"
    /\ ct = FALSE
    /\ ui = "running"
    /\ rooms0 = rooms
    /\ seen = {}
    /\ dropped = 0
    /\ lock = "free"
    /\ conn = ConnIdle
    /\ args = NoArgs
    /\ ord = [OrdInit EXCEPT !.got = <<0, 0>>,
                             !.emit[KnownAddr] = BacklogLen,
                             !.chan = [k \in 1..BacklogLen |-> k]]
    /\ repaints = 0
    /\ nInputs = Len(readers)

NextChannel ==
    \/ \E i \in 1..Len(readers), data \in Payloads : ReaderRecvOk(i, data)
    \/ \E i \in 1..Len(readers) : ReaderHandle(i)
    \/ UpdateRooms

SpecChannel ==
    /\ InitChannel /\ [][NextChannel]_vars
    /\ WF_vars(UpdateRooms)
    /\ \A i \in 1..2 : WF_vars(ReaderHandle(i))

(* A run that found no rooms file and started from the built-in list, after
   both devices were discovered and their readers subscribed, followed
   through the clock, the readers, the registry consumer, the dispatcher
   and the window's buttons *)
InitDefault ==
    /\ now = 0
    /\ rooms = DefaultRooms
    /\ poisoned = FALSE
    /\ chan = <<>>
    /\ rxAlive = TRUE
    /\ readers = <<Reader(KnownAddr, "recv", <<>>, ""),
                   Reader(OtherAddr, "recv", <<>>, "")>>
    /\ bt = "loop"
    /\ consumer = "recv"
    /\ actors = [pc |-> "start", requests |-> <<>>, wake |-> 0, sent |-> <<>>,
                 log |-> <<>>]
    /\ sup = "waiting"
    /\ ct = FALSE
    /\ ui = "running"
    /\ rooms0 = rooms
    /\ seen = {}
    /\ dropped = 0
    /\ lock = "free"
    /\ conn = ConnIdle
    /\ args = NoArgs
    /\ ord = [OrdInit EXCEPT !.got = <<0, 0>>]
    /\ repaints = 0
    /\ nInputs = 0

NextDefault ==
    \/ \E d \in TickSteps : Tick(d)
    \/ \E i \in 1..Len(readers), data \in Payloads : ReaderRecvOk(i, data)
    \/ \E i \in 1..Len(readers) : ReaderHandle(i)
    \/ UpdateRooms
    \/ ActorsCycle
    \/ \E ok \in BOOLEAN : ActorsResponse(ok)
    \/ \E i \in 1..Len(rooms), level \in ClickLevels : UiClick(i, level)
    \/ UiSaveBegin
    \/ \E ok \in BOOLEAN : UiSaveEnd(ok)

SpecDefault == InitDefault /\ [][NextDefault]_vars

----------------------------------------------------------------------------
(* Properties *)

RoomIdx == 1..Len(rooms)
ReaderIdx == 1..Len(readers)

(* update_rooms took one reading off the channel and merged it *)
MergeStep ==
    /\ consumer = "recv" /\ consumer' = "recv"
    /\ chan # <<>> /\ chan' = Tail(chan)

(* The first room in sequence order with the address, 0 for none *)
FirstWith(address) ==
    IF \E i \in RoomIdx : rooms[i].sensor_address = address
    THEN CHOOSE i \in RoomIdx :
            /\ rooms[i].sensor_address = address
            /\ \A j \in 1..(i - 1) : rooms[j].sensor_address # address
    ELSE 0

Sorted(h) == \A k \in 1..(Len(h) - 1) : h[k].timestamp <= h[k + 1].timestamp

(* C1: a room never shows a current reading once more than 300 s have passed
   since the last merge into it (its deadline is that merge's time + 300 s),
   also while the consumer lives and no further reading arrives. *)
C1_ReadingGoneAfterDeadline ==
    consumer = "recv" =>
        \A i \in RoomIdx :
            (IsSome(rooms[i].sensor) /\ IsSome(rooms[i].sensor_ttl))
                => now <= Unwrap(rooms[i].sensor_ttl)

(* The signed 16-bit integer with low byte lo and high byte hi *)
Int16LE(lo, hi) ==
    LET u == lo + hi * 256 IN IF u >= 32768 THEN u - 65536 ELSE u

(* C2: the reading a reader sends for a payload of at least 6 bytes has the
   temperature, in tenths of a degree, of the signed 16-bit little-endian
   integer bytes[3], bytes[4] and the humidity bytes[5]. *)
C2_TemperatureIsSignedInt16 ==
    [][\A i \in ReaderIdx :
          (/\ readers[i].pc = "got"
           /\ Len(readers[i].data) >= 6
           /\ readers'[i].pc = "recv"
           /\ Len(chan') = Len(chan) + 1)
          => LET data == readers[i].data
                 sent == chan'[Len(chan')]
             IN /\ sent.temperature = Int16LE(data[4], data[5])
                /\ sent.humidity = data[6]]_vars

(* C3: a reader that handles a payload shorter than 6 bytes sends nothing,
   leaves the registry as it is and goes back to receiving. *)
C3_ShortPayloadDropped ==
    [][\A i \in ReaderIdx :
          (/\ readers[i].pc = "got"
           /\ Len(readers[i].data) < 6
           /\ readers'[i] # readers[i]
           /\ sup' = sup)
          => /\ chan' = chan
             /\ rooms' = rooms
             /\ readers'[i].pc = "recv"]_vars

(* a reader has dropped a short payload and has gone on to receive the next
   payload, a full one; the registry is as it was created *)
C3_Witness ==
    /\ dropped >= 1
    /\ Len(readers) = 1
    /\ readers[1].pc = "got"
    /\ ~ (Len(readers[1].data) < 6)
    /\ rooms = rooms0

(* The sensor addresses of the registry as created *)
KnownAtStart == {rooms0[i].sensor_address : i \in 1..Len(rooms0)}

(* C4: a reading for an address no room has appends exactly one room; a
   reading for an address some room has is merged into the first such room
   and leaves the room count alone; so the number of rooms is the initial
   number plus the number of distinct unknown addresses merged. *)
C4_OneRoomPerAddress ==
    /\ [](Len(rooms) = Len(rooms0) + Cardinality(seen \ KnownAtStart))
    /\ [][MergeStep =>
            LET s == Head(chan)
                i == FirstWith(s.address)
            IN IF i # 0
               THEN /\ Len(rooms') = Len(rooms)
                    /\ rooms'[i].sensor = Some(s)
                    /\ \A j \in RoomIdx \ {i} :
                          /\ rooms'[j].sensor_history = rooms[j].sensor_history
                          /\ rooms'[j].sensor \in {rooms[j].sensor, None}
               ELSE /\ Len(rooms') = Len(rooms) + 1
                    /\ rooms'[Len(rooms')].sensor_address = s.address
                    /\ \A j \in RoomIdx :
                          rooms'[j].sensor_address = rooms[j].sensor_address]_vars

(* an ad-hoc room was appended for an unknown address and a later reading
   for that address went into it: the room count is the initial one plus 1 *)
C4_Witness ==
    /\ Len(rooms) = Len(rooms0) + 1
    /\ rooms[Len(rooms)].sensor_address = OtherAddr
    /\ rooms[Len(rooms)].sensor_history # <<>>

(* C5: right after a reading is merged into an existing room no entry of
   that room's history is older than now - 24 h, the history is what it was
   with the new entry appended and entries removed from the oldest end only,
   and every history is in non-decreasing timestamp order. *)
C5_HistoryTrimmed ==
    /\ [](\A i \in RoomIdx : Sorted(rooms[i].sensor_history))
    /\ [][MergeStep =>
            LET s == Head(chan)
                i == FirstWith(s.address)
            IN i # 0 =>
                 LET full == Append(rooms[i].sensor_history,
                                    SensorHistoryItem(s, now))
                     h == rooms'[i].sensor_history
                 IN /\ \A k \in 1..Len(h) : h[k].timestamp >= now - 86400
                    /\ Len(h) <= Len(full)
                    /\ h = SubSeq(full, Len(full) - Len(h) + 1, Len(full))]_vars

(* a merge has removed entries of an earlier run from the oldest end of the
   history and kept the new entry *)
C5_Witness ==
    /\ rooms0 = SavedRooms
    /\ Len(rooms[1].sensor_history) >= 1
    /\ rooms[1].sensor_history[Len(rooms[1].sensor_history)].timestamp = now
    /\ rooms[1].sensor_history[1].timestamp > -90000

(* update_actors ran one pass of its loop body: the collection under the lock *)
CycleStep ==
    /\ actors.pc \in {"start", "sleep"}
    /\ actors' # actors
    /\ actors'.pc # "cancelled"

IsManual(room) == IsSome(room.actor) /\ Unwrap(room.actor).state.mode = "Manual"
IsAuto(room) == IsSome(room.actor) /\ Unwrap(room.actor).state.mode = "Auto"

(* One GET per room with a Manual(level) actuator, in room order: the
   actuator's address, turn=on, timer = level * 600 *)
ExpectedRequests(rs) ==
    LET manual == SelectSeq(rs, IsManual)
    IN [k \in 1..Len(manual) |->
          [url |-> Unwrap(manual[k].actor).address, turn |-> "on",
           timer |-> Unwrap(manual[k].actor).state.val * 600]]

(* C6: a dispatch cycle that meets a room in Auto mode does not end the
   dispatch loop: the requests for the other rooms of the cycle are still
   built and awaited and the dispatcher goes on to its next sleep. *)
C6_AutoDoesNotCrashTheLoop ==
    [][(CycleStep /\ ~poisoned /\ \E i \in RoomIdx : IsAuto(rooms[i]))
          => /\ actors'.pc \in {"await", "sleep"}
             /\ actors'.requests = ExpectedRequests(rooms)]_vars

(* C7: a failure of the dispatcher stays in the dispatcher: it leaves the
   registry lock usable and the supervisor never tears the other tasks down
   because the dispatcher ended. *)
C7_DispatcherFailureContained ==
    /\ actors.pc = "panicked" => ~poisoned
    /\ sup # "actors"

(* C8: a reader that resubscribes after a stream error either is subscribed
   again or tries again; the attempt failing does not end the task. *)
C8_ResubscribeNeverEndsReader ==
    [][\A i \in ReaderIdx :
          (/\ readers[i].pc = "resubscribe"
           /\ readers'[i] # readers[i]
           /\ sup' = sup)
          => readers'[i].pc \in {"recv", "resubscribe"}]_vars

(* C9: a reader whose send fails because the consumer is gone takes the
   ingestion subsystem down with it: bt_main and the other readers do not
   keep running. *)
C9_SendFailureEndsIngestion ==
    [][\A i \in ReaderIdx :
          (/\ readers[i].pc = "got"
           /\ readers'[i].pc = "panicked"
           /\ readers'[i].why = "Failed to send sensor data")
          => /\ bt' \notin {"setup", "loop"}
             /\ \A j \in ReaderIdx \ {i} : ~ReaderLive(readers'[j])]_vars

(* C10: every dispatch cycle builds exactly one GET for each room with a
   Manual(level) actuator, to the actuator's address with turn=on and
   timer = level * 600 (also for level 0), and none for any other room. *)
C10_OneRequestPerManualRoom ==
    [][CycleStep
          => /\ actors'.pc \in {"await", "sleep"}
             /\ actors'.requests = ExpectedRequests(rooms)
             /\ actors'.requests # <<>> => actors'.sent = <<Head(actors'.requests)>>]_vars

(* The dispatcher's step at the completion of the request in flight *)
ResponseStep == actors.pc = "await" /\ actors'.log # actors.log

(* C11: a request of the cycle that fails is logged and nothing more: the
   requests that are left are awaited in order, after the last one the
   dispatcher sleeps one period (3600 s), and it leaves the sleep only to
   start the next cycle, not before the period is over, or at shutdown. *)
C11_FailedRequestDoesNotStopTheCycle ==
    /\ [][ResponseStep
            => LET rest == Tail(actors.requests)
               IN /\ actors'.requests = rest
                  /\ rest # <<>> => /\ actors'.pc = "await"
                                    /\ actors'.sent = Append(actors.sent, Head(rest))
                  /\ rest = <<>> => /\ actors'.pc = "sleep"
                                    /\ actors'.sent = actors.sent
                                    /\ actors'.wake = now + ActorPeriodSecs]_vars
    /\ [][(actors.pc = "sleep" /\ actors'.pc # "sleep")
            => \/ actors'.pc = "cancelled"
               \/ now >= actors.wake /\ actors'.pc \in {"await", "sleep", "panicked"}]_vars

(* A cycle of two or more requests whose first request failed, completed *)
C11_Witness ==
    /\ actors.pc = "sleep"
    /\ Len(actors.log) >= 2
    /\ actors.log[1] = "error"
    /\ Len(actors.sent) = Len(actors.log)

(* The dispatcher awaits a request or sleeps *)
AwaitingOrAsleep(a) == a.pc \in {"await", "sleep"}

(* C12: the dispatcher holds the registry lock only while it builds the
   requests of a cycle: whenever it awaits a request or sleeps the lock is not
   its own, so the consumer and the UI can take it, and a change they make to
   the registry meanwhile changes neither the requests still to be awaited nor
   the ones already sent. *)
C12_LockReleasedBeforeAwait ==
    /\ [][AwaitingOrAsleep(actors') => lock' # "actors"]_vars
    /\ [][(AwaitingOrAsleep(actors) /\ rooms' # rooms)
            => /\ actors'.requests = actors.requests
               /\ actors'.sent = actors.sent]_vars

(* The first request of a cycle is in flight and the UI has since changed the
   level it was built from *)
C12_Witness ==
    /\ actors.pc = "await"
    /\ Len(actors.sent) = 1
    /\ ExpectedRequests(rooms) # <<>>
    /\ actors.sent[1].url = ExpectedRequests(rooms)[1].url
    /\ actors.sent[1].timer # ExpectedRequests(rooms)[1].timer

(* C13: nobody writes rooms.json or sends a network request while holding the
   registry lock: the UI thread is inside save_rooms_to_file only with the
   lock free, and a request of the dispatcher is in flight only with the lock
   not its own. *)
C13_NoIoUnderLock ==
    /\ ui = "saving" => lock # "ui"
    /\ actors.pc = "await" => lock # "actors"

(* C14: for a device that is not connected the connector calls connect at
   most three times, a success ends the retrying and leads on to the
   characteristic lookup, and the connect error is returned only after three
   failures in a row; for a device already connected, without a name, or with
   a name that does not start with TP357, connect is never called. *)
C14_ConnectRetries ==
    LET n == Len(conn.tried)
    IN /\ n <= 3
       /\ \A k \in 1..(n - 1) : conn.tried[k] = "err"
       /\ (n > 0 /\ conn.tried[n] = "ok")
             => conn.pc \in {"services", "done"} /\ conn.why # "connect"
       /\ (n > 0 /\ conn.tried[n] = "err")
             => IF n < 3 THEN conn.pc = "connect"
                ELSE conn.pc = "done" /\ conn.result = "Err" /\ conn.why = "connect"
       /\ conn.why = "connect" => conn.tried = <<"err", "err", "err">>
       /\ (conn.connected \/ ~IsTP(conn.name)) => n = 0

(* The third failure in a row has ended the call with the connect error *)
C14_Witness ==
    /\ conn.pc = "done"
    /\ conn.result = "Err"
    /\ conn.tried = <<"err", "err", "err">>

(* C15: an error met while one discovered device is handled (its name, the
   connect, the service enumeration, its property-change stream) is logged and
   the device skipped: the discovery loop is left only when the adapter's
   event stream ends or at shutdown, whatever the command line. *)
C15_DeviceErrorKeepsDiscovery ==
    [][bt = "loop" => bt' \in {"loop", "ended", "cancelled"}]_vars

(* C16: the readings of one device are merged in the order in which the
   device's notification stream delivered them: the reading the consumer
   merges was delivered after the one it merged last for the same address,
   whatever the interleaving with the readers of other devices and however
   often the device was discovered. *)
C16_MergedInStreamOrder ==
    [][MergeStep => Head(ord.chan) > ord.last[Head(chan).address]]_vars

(* C17: a registry rebuilt from rooms.json obeys the liveness rule like any
   other: once the consumer has processed a reading (merge, then sweep) every
   room that shows a current reading has a deadline that has not passed, so
   a reading saved by an earlier run does not outlive the sweep. *)
C17_ReloadedReadingIsSwept ==
    [][MergeStep
          => \A i \in 1..Len(rooms') :
                IsSome(rooms'[i].sensor)
                   => /\ IsSome(rooms'[i].sensor_ttl)
                      /\ now <= Unwrap(rooms'[i].sensor_ttl)]_vars

(* Room j is the same but for its reading and deadline, which are either
   untouched or both cleared because the deadline had passed *)
OnlySwept(old, new) ==
    /\ new.name = old.name
    /\ new.sensor_address = old.sensor_address
    /\ new.actor = old.actor
    /\ new.sensor_history = old.sensor_history
    /\ \/ new.sensor = old.sensor /\ new.sensor_ttl = old.sensor_ttl
       \/ /\ IsSome(old.sensor_ttl) /\ now > Unwrap(old.sensor_ttl)
          /\ new.sensor = None /\ new.sensor_ttl = None

(* C18: processing one reading (merge, then sweep) keeps every room in its
   place with its name, address and actuator; it changes the reading, history
   and deadline of the merge target, or appends one ad-hoc room when there is
   no target; of any other room it changes nothing but reading and deadline,
   both cleared, and only when the deadline had passed; the history of a
   swept room is left as it was. *)
C18_MergeFrame ==
    [][MergeStep =>
          LET s == Head(chan)
              i == FirstWith(s.address)
          IN /\ Len(rooms') = IF i = 0 THEN Len(rooms) + 1 ELSE Len(rooms)
             /\ \A j \in RoomIdx \ {i} : OnlySwept(rooms[j], rooms'[j])
             /\ i # 0 => /\ rooms'[i].name = rooms[i].name
                         /\ rooms'[i].sensor_address = rooms[i].sensor_address
                         /\ rooms'[i].actor = rooms[i].actor
             /\ UNCHANGED <<now, poisoned, rxAlive, readers, bt, consumer,
                            actors, sup, ct, ui, rooms0, dropped, lock,
                            nInputs>>]_vars

(* A room whose reading the sweep has cleared keeps its history, while the
   reading that triggered the sweep sits in another room *)
C18_Witness ==
    \E i, j \in RoomIdx :
       /\ i # j
       /\ rooms[i].sensor = None /\ rooms[i].sensor_ttl = None
       /\ rooms[i].sensor_history # <<>>
       /\ rooms[i].sensor_address \in seen
       /\ IsSome(rooms[j].sensor) /\ IsSome(rooms[j].sensor_ttl)

(* C19: no two reader tasks are alive for the same device address: a
   DeviceAdded event for an address whose reader is running spawns no
   second one. *)
C19_OneReaderPerAddress ==
    \A i, j \in ReaderIdx :
       (i # j /\ ReaderLive(readers[i]) /\ ReaderLive(readers[j]))
          => readers[i].addr # readers[j].addr

(* The rooms appended while the program runs *)
AdHocIdx == (Len(rooms0) + 1)..Len(rooms)

(* C20: a room created for an unknown address has the address as its name
   and as its sensor address, the reading as current reading, the deadline
   now + 300 s, no actuator and an empty history; it never gets an actuator,
   so no request of the dispatcher goes to it; and as long as all readings
   for the address lie within 24 h its history holds one entry less than the
   number of readings merged for the address. *)
C20_AdHocRoom ==
    /\ [][(MergeStep /\ FirstWith(Head(chan).address) = 0)
            => rooms'[Len(rooms')] =
                  Room(Head(chan).address, Head(chan).address,
                       Some(now + 300), Some(Head(chan)), <<>>, None)]_vars
    /\ [][\A i \in (Len(rooms0) + 1)..Len(rooms') :
             /\ rooms'[i].name = rooms'[i].sensor_address
             /\ rooms'[i].actor = None
             /\ now' <= 86400
                  => Len(rooms'[i].sensor_history)
                        = ord'.merged[rooms'[i].sensor_address] - 1]_vars
    /\ [][CycleStep
            => \A k \in 1..Len(actors'.requests) :
                  \E i \in 1..Len(rooms0) :
                     /\ IsSome(rooms[i].actor)
                     /\ Unwrap(rooms[i].actor).address = actors'.requests[k].url]_vars

(* Three readings for an unknown address within 24 h: the ad-hoc room holds
   the third as its reading and the second and third in its history, and the
   dispatcher, having run a cycle, has sent nothing to it *)
C20_Witness ==
    \E i \in AdHocIdx :
       /\ ord.merged[rooms[i].sensor_address] = 3
       /\ Len(rooms[i].sensor_history) = 2
       /\ now <= 86400
       /\ actors.pc \in {"await", "sleep"}

(* Readings merged so far *)
MergedCount == ord.merged[KnownAddr] + ord.merged[OtherAddr]

(* Reader i holds a payload the length check accepts *)
HoldsAccepted(i) == readers[i].pc = "got" /\ ~TooShort(readers[i].data)

(* C21: the channel never holds more than 10 readings; a reader whose send
   finds it full keeps its reading and waits; each step of the consumer
   takes exactly the oldest reading off the channel, merges it and signals
   one redraw; and with the tasks scheduled fairly, unless the consumer has
   ended, the readers and the channel are emptied again and again, so that
   every reading a reader holds is sent and every reading sent is merged. *)
C21_EveryReadingMergedOnce ==
    /\ [](Len(chan) <= 10 /\ repaints = MergedCount)
    /\ [][\A i \in ReaderIdx :
             (HoldsAccepted(i) /\ Len(chan) = 10 /\ consumer' = "recv")
                => \/ readers'[i] = readers[i]
                   \/ /\ Len(chan') = 10
                      /\ chan'[10].address = readers[i].addr]_vars
    /\ [][MergeStep
            => /\ ord'.chan = Tail(ord.chan)
               /\ MergedCount' = MergedCount + 1
               /\ repaints' = repaints + 1
               /\ seen' = seen \cup {Head(chan).address}]_vars
    /\ [][MergedCount' # MergedCount => MergeStep]_vars
    /\ []<>(\/ consumer # "recv"
            \/ chan = <<>> /\ \A i \in 1..2 : ~HoldsAccepted(i))

(* The channel is full and a reader holds an accepted reading it cannot
   send yet *)
C21_Witness ==
    /\ Len(chan) = 10
    /\ consumer = "recv"
    /\ \E i \in ReaderIdx : HoldsAccepted(i)

(* Every task of the runtime is at rest: ended, panicked or dropped *)
AllStopped ==
    /\ bt \notin {"setup", "loop"}
    /\ consumer # "recv"
    /\ actors.pc \notin {"start", "await", "sleep"}
    /\ \A i \in ReaderIdx : ~ReaderLive(readers[i])

(* C22: the supervisor can end whenever the token is cancelled or one of
   the three supervised tasks has finished or panicked, and Ctrl-C ends it
   too; it ends for no other reason; when it has ended every task is stopped
   and stays so: no cycle of the dispatcher, no request, no merge, no redraw
   follows. The token is set only by Ctrl-C and by the UI's exit, never by
   the end of a task. *)
C22_SupervisorEndsEverything ==
    /\ [](sup = "waiting" =>
            /\ ct => ENABLED SupervisorSelect("cancelled")
            /\ bt \in {"failed", "ended"} => ENABLED SupervisorSelect("bt")
            /\ consumer = "panicked" => ENABLED SupervisorSelect("rooms")
            /\ actors.pc = "panicked" => ENABLED SupervisorSelect("actors"))
    /\ [][(sup = "waiting" /\ sup' \notin {"waiting", "exit"})
            => /\ SelectReady(sup')
               /\ AllStopped'
               /\ chan' = <<>>
               /\ sup' # "ctrl_c" => ct' = ct]_vars
    /\ [][sup # "waiting"
            => /\ AllStopped'
               /\ UNCHANGED <<actors, readers, bt, consumer, chan, seen, ord,
                              repaints>>]_vars
    /\ [][ct' # ct => ct' /\ (sup' = "ctrl_c" \/ ui' = "closed")]_vars

(* The dispatcher has panicked and the supervisor has ended for it: a reader
   that was running is dropped, the token is not cancelled and the UI runs *)
C22_Witness ==
    /\ sup = "actors"
    /\ ~ct
    /\ ui = "running"
    /\ \E i \in ReaderIdx : readers[i].pc = "cancelled"

(* C23: the trimming loop of a merge never finds the history empty: the
   reading about to be merged cannot make sensor_history[0] fail, whatever
   the room's history holds, and after the merge the history ends with the
   entry just appended, which carries the current time; the consumer never
   ends on the index. *)
C23_TrimNeverReadsEmptyHistory ==
    /\ []((consumer = "recv" /\ chan # <<>>)
             => ~MergePanics(rooms, Head(chan), now))
    /\ [](consumer # "panicked" \/ poisoned)
    /\ [][MergeStep =>
            LET i == FirstWith(Head(chan).address)
            IN i # 0 =>
                 LET h == rooms'[i].sensor_history
                 IN /\ h # <<>>
                    /\ h[Len(h)] = SensorHistoryItem(Head(chan), now)]_vars

(* A room reloaded with a history of entries that are all older than 24 h
   has merged a reading: only the new entry is left *)
C23_Witness ==
    \E i \in 1..Len(rooms0) :
       /\ rooms0[i].sensor_history # <<>>
       /\ \A k \in 1..Len(rooms0[i].sensor_history) :
             rooms0[i].sensor_history[k].timestamp < now - 86400
       /\ rooms[i].sensor_history =
             <<SensorHistoryItem(Unwrap(rooms[i].sensor), now)>>
       /\ IsSome(rooms[i].sensor_ttl)

(* C24: in a run started from the built-in room list a room's current
   reading is present exactly when its liveness deadline is present; a step
   changes either field of a room, or adds a room, only when the registry
   consumer merges a reading (the merge and the ad-hoc creation set both,
   the sweep of that same step clears both). *)
C24_ReadingIffDeadline ==
    /\ [](\A i \in RoomIdx :
             IsSome(rooms[i].sensor) <=> IsSome(rooms[i].sensor_ttl))
    /\ [][(\/ Len(rooms') # Len(rooms)
           \/ \E i \in RoomIdx :
                 \/ rooms'[i].sensor # rooms[i].sensor
                 \/ rooms'[i].sensor_ttl # rooms[i].sensor_ttl)
            => MergeStep]_vars

(* One room of the built-in list was merged into and later swept, while
   another room holds a reading and a deadline *)
C24_Witness ==
    /\ rooms0 = DefaultRooms
    /\ \E i, j \in RoomIdx :
          /\ rooms[i].sensor_history # <<>>
          /\ rooms[i].sensor = None
          /\ rooms[i].sensor_ttl = None
          /\ IsSome(rooms[j].sensor)
          /\ IsSome(rooms[j].sensor_ttl)

====
